---- MODULE Spec2Model ----
(***************************************************************************)
(* Model of the SquadCast app-store integration:                           *)
(*   packages/app-store/squadcast/lib/VideoApiAdapter.ts  (the adapter)    *)
(*   packages/app-store/squadcast/api/add.ts              (install)        *)
(* JavaScript values that may be undefined or of the wrong type are        *)
(* tagged records [t, v]; e-mail addresses and header tokens are strings.  *)
(***************************************************************************)
EXTENDS Integers, Sequences, FiniteSets, TLC

VARIABLES
  credential,   \* the CredentialPayload the adapter was constructed with
  event,        \* the CalendarEvent handed to the operation
  part,         \* outcome of createStageAndViewers on event (SpecPartition)
  op,           \* the operation that ran last
  input,        \* what the environment answered during that operation
  steps,        \* helper calls the operation made, in order
  calls,        \* outbound provider requests the operation issued, in order
  result,       \* how the operation ended
  store,        \* rows of the credential table (install handler)
  responses     \* res.status(..).json(..) calls of the install handler

vars == <<credential, event, part, op, input, steps, calls, result, store, responses>>

----------------------------------------------------------------------------
(* Bounds of the model *)

MaxFill == 9
MaxTail == 2
MaxGuests == 2
MaxRecordings == 2
MaxStore == 2

----------------------------------------------------------------------------
(* JavaScript values *)

Str(s) == [t |-> "string", v |-> s]
Undefined == [t |-> "undefined", v |-> ""]
Num == [t |-> "number", v |-> "7"]

\* !x
Falsy(x) == x.t = "undefined" \/ (x.t = "string" /\ x.v = "")

\* `${x}` inside a template literal
TemplateString(x) == IF x.t = "undefined" THEN "undefined" ELSE x.v

\* z.string()
ZString(x) == x.t = "string"

Min(a, b) == IF a < b THEN a ELSE b

\* Array.prototype.includes
Includes(s, x) == \E i \in 1..Len(s) : s[i] = x

\* Array.prototype.slice(from, to), zero-based, to exclusive
Slice(s, from, to) == SubSeq(s, from + 1, Min(to, Len(s)))

SeqsUpTo(S, n) == UNION {[1..k -> S] : k \in 0..n}

----------------------------------------------------------------------------
(* Program constants *)

metadataType == "squadcast_video"
metadataSlug == "squadcast"

empty == [type |-> Str(""), id |-> Str(""), password |-> Str(""), url |-> Str("")]

StageLimit == 10

----------------------------------------------------------------------------
(* createStageAndViewers *)

\* Variants of createStageAndViewers with one slip each.
createStageAndViewers_dropOne(ev) ==
  IF ~ev.hasGuests
    THEN [threw |-> TRUE, stage |-> <<>>, viewer |-> <<>>]
    ELSE
      LET guests == ev.guests
          attendee == SelectSeq(ev.attendees, LAMBDA a : ~Includes(guests, a))
          everyone == IF ev.hasTeam
                        THEN <<ev.organizer>> \o attendee \o ev.team
                        ELSE <<ev.organizer>> \o attendee
      IN  IF Len(everyone) <= StageLimit
            THEN [threw |-> FALSE, stage |-> everyone, viewer |-> guests]
            ELSE [threw |-> FALSE,
                  stage |-> Slice(everyone, 0, StageLimit),
                  viewer |-> Slice(everyone, StageLimit + 1, Len(everyone)) \o guests]

createStageAndViewers_dedup(ev) ==
  IF ~ev.hasGuests
    THEN [threw |-> TRUE, stage |-> <<>>, viewer |-> <<>>]
    ELSE
      LET guests == ev.guests
          attendee == SelectSeq(ev.attendees,
                        LAMBDA a : ~Includes(guests, a) /\ a # ev.organizer)
          everyone == IF ev.hasTeam
                        THEN <<ev.organizer>> \o attendee \o ev.team
                        ELSE <<ev.organizer>> \o attendee
      IN  IF Len(everyone) <= StageLimit
            THEN [threw |-> FALSE, stage |-> everyone, viewer |-> guests]
            ELSE [threw |-> FALSE,
                  stage |-> Slice(everyone, 0, StageLimit),
                  viewer |-> Slice(everyone, StageLimit, Len(everyone)) \o guests]

createStageAndViewers_keepGuests(ev) ==
  IF ~ev.hasGuests
    THEN [threw |-> TRUE, stage |-> <<>>, viewer |-> <<>>]
    ELSE
      LET guests == ev.guests
          attendee == ev.attendees
          everyone == IF ev.hasTeam
                        THEN <<ev.organizer>> \o attendee \o ev.team
                        ELSE <<ev.organizer>> \o attendee
      IN  IF Len(everyone) <= StageLimit
            THEN [threw |-> FALSE, stage |-> everyone, viewer |-> guests]
            ELSE [threw |-> FALSE,
                  stage |-> Slice(everyone, 0, StageLimit),
                  viewer |-> Slice(everyone, StageLimit, Len(everyone)) \o guests]

createStageAndViewers_noTeam(ev) ==
  IF ~ev.hasGuests
    THEN [threw |-> TRUE, stage |-> <<>>, viewer |-> <<>>]
    ELSE
      LET guests == ev.guests
          attendee == SelectSeq(ev.attendees, LAMBDA a : ~Includes(guests, a))
          everyone == <<ev.organizer>> \o attendee
      IN  IF Len(everyone) <= StageLimit
            THEN [threw |-> FALSE, stage |-> everyone, viewer |-> guests]
            ELSE [threw |-> FALSE,
                  stage |-> Slice(everyone, 0, StageLimit),
                  viewer |-> Slice(everyone, StageLimit, Len(everyone)) \o guests]

\* eventData.responses?.guests.value is undefined when the event has no
\* responses: guests.includes / [...guests] then raise a TypeError.
createStageAndViewers(ev) ==
  IF ~ev.hasGuests
    THEN [threw |-> TRUE, stage |-> <<>>, viewer |-> <<>>]
    ELSE
      LET guests == ev.guests
          attendee == SelectSeq(ev.attendees, LAMBDA a : ~Includes(guests, a))
          everyone == IF ev.hasTeam
                        THEN <<ev.organizer>> \o attendee \o ev.team
                        ELSE <<ev.organizer>> \o attendee
      IN  IF Len(everyone) <= StageLimit
            THEN [threw |-> FALSE, stage |-> everyone, viewer |-> guests]
            ELSE [threw |-> FALSE,
                  stage |-> Slice(everyone, 0, StageLimit),
                  viewer |-> Slice(everyone, StageLimit, Len(everyone)) \o guests]

----------------------------------------------------------------------------
(* Calendar events *)

Organizer == "o@x.com"
CoreEmails == {"o@x.com", "a@x.com", "b@x.com", "g@x.com"}
GuestEmails == {"o@x.com", "a@x.com", "g@x.com", "t@x.com"}
TeamEmails == {"o@x.com", "a@x.com", "t@x.com"}

FillerEmails ==
  <<"f01@x.com", "f02@x.com", "f03@x.com", "f04@x.com", "f05@x.com", "f06@x.com",
    "f07@x.com", "f08@x.com", "f09@x.com", "f10@x.com", "f11@x.com", "f12@x.com">>

Filler(k) == SubSeq(FillerEmails, 1, k)

MkEvent(att, hasG, g, hasT, tm, tz, etype) ==
  [organizer |-> Organizer, organizerId |-> 1, organizerTz |-> tz, attendees |-> att,
   hasGuests |-> hasG, guests |-> g, hasTeam |-> hasT, team |-> tm,
   eventTypeId |-> etype]

GuestChoices ==
  {<<FALSE, <<>> >>} \cup {<<TRUE, g>> : g \in SeqsUpTo(GuestEmails, MaxGuests)}

TeamChoices ==
  {<<FALSE, <<>> >>} \cup {<<TRUE, <<>> >>} \cup {<<TRUE, <<t>> >> : t \in TeamEmails}

\* The example of the specification's testable properties.
ExampleEvent ==
  MkEvent(<<"o@x.com", "a@x.com", "b@x.com">>, TRUE, <<"g@x.com">>, FALSE, <<>>,
          "Europe/Paris", 0)

PartitionEvents ==
  {MkEvent(Filler(k) \o tail, gc[1], gc[2], tc[1], tc[2], "Europe/Paris", 0) :
     k \in 0..MaxFill, tail \in SeqsUpTo(CoreEmails, MaxTail),
     gc \in GuestChoices, tc \in TeamChoices}
  \cup {ExampleEvent}

\* Events used when the whole life cycle is explored.
LifecycleEvents ==
  {ExampleEvent,
   MkEvent(<<"a@x.com">>, FALSE, <<>>, FALSE, <<>>, "UTC", 1),
   MkEvent(Filler(9) \o <<"a@x.com", "g@x.com">>, TRUE, <<"g@x.com">>,
           TRUE, <<"t@x.com">>, "America/New_York", 1)}

----------------------------------------------------------------------------
(* Credentials and the encryption primitive *)

ApiKeys == {"k1"}
CALENDSO_ENCRYPTION_KEY == Str("secret")

\* process.env.CALENDSO_ENCRYPTION_KEY || ""
EnvSecret == IF Falsy(CALENDSO_ENCRYPTION_KEY) THEN "" ELSE CALENDSO_ENCRYPTION_KEY.v

symmetricEncrypt(text, secret) == "aes[" \o secret \o "]:" \o text

symmetricDecrypt(cipher, secret) ==
  IF \E p \in ApiKeys : symmetricEncrypt(p, secret) = cipher
    THEN CHOOSE p \in ApiKeys : symmetricEncrypt(p, secret) = cipher
    ELSE "garbage"

\* credential.key is null, or an object whose apiKey may be anything
Credentials ==
  {[hasKey |-> FALSE, apiKey |-> Undefined],
   [hasKey |-> TRUE, apiKey |-> Undefined],
   [hasKey |-> TRUE, apiKey |-> Num],
   [hasKey |-> TRUE, apiKey |-> Str(symmetricEncrypt("k1", EnvSecret))]}

getApiKey(cred) ==
  IF ~cred.hasKey
    THEN [threw |-> FALSE, value |-> Undefined]
    ELSE IF ~ZString(cred.apiKey)
      THEN [threw |-> TRUE, value |-> Undefined]
      ELSE [threw |-> FALSE, value |-> Str(symmetricDecrypt(cred.apiKey.v, EnvSecret))]

----------------------------------------------------------------------------
(* Results of an operation *)

Return(v) == [kind |-> "return", value |-> v]
Throw(e) == [kind |-> "throw", error |-> e]
Void == [kind |-> "void"]
NoResult == [kind |-> "none"]

Outcome(s, c, r) == [steps |-> s, calls |-> c, result |-> r]

----------------------------------------------------------------------------
(* Request payload *)

Lookups == {"throw", "noAppData", "noShow", "show"}

\* lookup is what getEventTypeById / getEventTypeAppData answer
getShowId(ev, lookup) ==
  IF ev.eventTypeId = 0 \/ ev.organizerId = 0
    THEN [threw |-> FALSE, called |-> FALSE, value |-> Undefined]
    ELSE IF lookup = "throw"
      THEN [threw |-> TRUE, called |-> TRUE, value |-> Undefined]
      ELSE IF lookup = "noAppData"
        THEN [threw |-> FALSE, called |-> TRUE, value |-> Undefined]
        ELSE IF lookup = "noShow"
          THEN [threw |-> FALSE, called |-> TRUE, value |-> Undefined]
          ELSE [threw |-> FALSE, called |-> TRUE, value |-> Str("show1")]

NoBody == [action |-> "none"]

getQueryString(ev, action, lookup) ==
  LET tz == IF action = "create" THEN ev.organizerTz ELSE "UTC"
      sv == createStageAndViewers(ev)
      show == getShowId(ev, lookup)
  IN  IF sv.threw
        THEN [threw |-> TRUE, error |-> "TypeError", body |-> NoBody]
        ELSE IF show.threw
          THEN [threw |-> TRUE, error |-> "LookupError", body |-> NoBody]
          ELSE [threw |-> FALSE, error |-> "",
                body |-> [action |-> action, renderTz |-> tz,
                          timeZone |-> ev.organizerTz,
                          stage |-> sv.stage, viewer |-> sv.viewer,
                          showID |-> IF Falsy(show.value) THEN Undefined ELSE show.value]]

Request(method, url, key, body) ==
  [method |-> method, url |-> url, token |-> TemplateString(key), body |-> body]

----------------------------------------------------------------------------
(* createMeeting *)

Statuses == {200, 201, 404, 500}

CreateInputs ==
  [lookup : Lookups, net : {"reject", "respond"}, status : Statuses,
   json : BOOLEAN, sessionID : {Undefined, Num, Str("sess1")},
   showID : {Undefined, Num, Str("show1")}]

statusIsFailure_notOk(status) == status \notin 200..299

\* response.status !== 200
statusIsFailure(status) == status # 200

createMeeting(cred, ev, in) ==
  LET k == getApiKey(cred)
      q == getQueryString(ev, "create", in.lookup)
      call == Request("POST", "https://api.squadcast.fm/v2/sessions", k.value, q.body)
  IN  IF k.threw
        THEN Outcome(<<"getApiKey">>, <<>>, Throw("ZodError"))
      ELSE IF q.threw
        THEN Outcome(<<"getApiKey", "getQueryString">>, <<>>, Throw(q.error))
      ELSE IF in.net = "reject"
        THEN Outcome(<<"getApiKey", "getQueryString">>, <<call>>, Throw("FetchError"))
      ELSE IF statusIsFailure(in.status)
        THEN Outcome(<<"getApiKey", "getQueryString">>, <<call>>, Return(empty))
      ELSE IF ~in.json
        THEN Outcome(<<"getApiKey", "getQueryString">>, <<call>>, Throw("SyntaxError"))
      ELSE IF ~(ZString(in.sessionID) /\ ZString(in.showID))
        THEN Outcome(<<"getApiKey", "getQueryString">>, <<call>>, Throw("ZodError"))
      ELSE Outcome(<<"getApiKey", "getQueryString">>, <<call>>,
             Return([id |-> in.sessionID,
                     password |-> Str(""),
                     url |-> Str("https://app.squadcast.fm/studio/" \o in.showID.v
                                 \o "/session/" \o in.sessionID.v),
                     type |-> Str(metadataType)]))

----------------------------------------------------------------------------
(* updateMeeting *)

BookingRefs ==
  {[meetingId |-> Undefined, meetingPassword |-> Undefined, meetingUrl |-> Undefined],
   [meetingId |-> Str(""), meetingPassword |-> Str(""), meetingUrl |-> Str("")],
   [meetingId |-> Str("sess1"), meetingPassword |-> Undefined,
    meetingUrl |-> Str("https://app.squadcast.fm/studio/show1/session/sess1")]}

UpdateInputs ==
  [bookingRef : BookingRefs, lookup : Lookups, net : {"reject", "respond"},
   status : Statuses]

noMeetingId_ignored(ref) == FALSE

\* !bookingRef.meetingId
noMeetingId(ref) == Falsy(ref.meetingId)

updateMeeting(cred, ev, in) ==
  LET ref == in.bookingRef
      k == getApiKey(cred)
      q == getQueryString(ev, "update", in.lookup)
      call == Request("PUT", "https://api.squadcast.fm/v2/sessions/" \o ref.meetingId.v,
                      k.value, q.body)
  IN  IF noMeetingId(ref)
        THEN Outcome(<<>>, <<>>, Return(empty))
      ELSE IF k.threw
        THEN Outcome(<<"getApiKey">>, <<>>, Throw("ZodError"))
      ELSE IF q.threw
        THEN Outcome(<<"getApiKey", "getQueryString">>, <<>>, Throw(q.error))
      ELSE IF in.net = "reject"
        THEN Outcome(<<"getApiKey", "getQueryString">>, <<call>>, Throw("FetchError"))
      ELSE Outcome(<<"getApiKey", "getQueryString">>, <<call>>,
             Return([id |-> ref.meetingId,
                     password |-> ref.meetingPassword,
                     url |-> ref.meetingUrl,
                     type |-> Str(metadataType)]))

----------------------------------------------------------------------------
(* deleteMeeting *)

\* An element of the recordings list as the provider sent it.
RecordingElements == [status : {Undefined, Num, Str("ready")},
                      recordingID : {Undefined, Str("rec1")}]

\* z.object({status}).or(z.object({recordingID})): the first schema that
\* accepts the element wins, and z.object drops the keys it does not declare.
zodRecording(e) ==
  IF ZString(e.status)
    THEN [ok |-> TRUE, value |-> [status |-> e.status, recordingID |-> Undefined]]
    ELSE IF ZString(e.recordingID)
      THEN [ok |-> TRUE, value |-> [status |-> Undefined, recordingID |-> e.recordingID]]
      ELSE [ok |-> FALSE, value |-> [status |-> Undefined, recordingID |-> Undefined]]

\* obj.hasOwnProperty(name)
hasOwnProperty(obj, name) ==
  IF name = "recordingID" THEN obj.recordingID.t # "undefined"
                          ELSE obj.status.t # "undefined"

DeleteInputs ==
  [uid : {"sess1"}, net : {"reject", "respond"}, json : BOOLEAN, isArray : BOOLEAN,
   recordings : SeqsUpTo(RecordingElements, MaxRecordings),
   netDelete : {"reject", "respond"}]

\* The .then(...) callback that decides canWeDelete.
canWeDelete(in) ==
  IF ~in.json
    THEN [threw |-> TRUE, error |-> "SyntaxError", value |-> FALSE]
  ELSE IF ~in.isArray \/ \E i \in 1..Len(in.recordings) : ~zodRecording(in.recordings[i]).ok
    THEN [threw |-> TRUE, error |-> "ZodError", value |-> FALSE]
  ELSE IF Len(in.recordings) = 0
    THEN [threw |-> TRUE, error |-> "TypeError", value |-> FALSE]
  ELSE IF hasOwnProperty(zodRecording(in.recordings[1]).value, "recordingID")
    THEN [threw |-> FALSE, error |-> "", value |-> FALSE]
    ELSE [threw |-> FALSE, error |-> "", value |-> TRUE]

deleteMeeting(cred, in) ==
  LET k == getApiKey(cred)
      can == canWeDelete(in)
      get == Request("GET", "https://api.squadcast.fm/v2/sessions/" \o in.uid \o "/recordings",
                     k.value, NoBody)
      del == Request("DELETE", "https://api.squadcast.fm/v2/sessions/" \o in.uid,
                     k.value, NoBody)
  IN  IF k.threw
        THEN Outcome(<<"getApiKey">>, <<>>, Throw("ZodError"))
      ELSE IF in.net = "reject"
        THEN Outcome(<<"getApiKey">>, <<get>>, Throw("FetchError"))
      ELSE IF can.threw
        THEN Outcome(<<"getApiKey">>, <<get>>, Throw(can.error))
      ELSE IF ~can.value
        THEN Outcome(<<"getApiKey">>, <<get>>, Void)
      ELSE IF in.netDelete = "reject"
        THEN Outcome(<<"getApiKey">>, <<get, del>>, Throw("FetchError"))
      ELSE Outcome(<<"getApiKey">>, <<get, del>>, Void)

----------------------------------------------------------------------------
(* Install handler (api/add.ts) *)

InstallInputs ==
  [session : BOOLEAN, method : {"GET", "POST", "PUT"},
   apiKey : {Undefined, Str("k1")}, teamId : {"absent", "nan", "0", "5"},
   probe : {"reject", "notOk", "ok"}, userFound : BOOLEAN, createOk : BOOLEAN]

Response(status, body) == [status |-> status, body |-> body]

InstallOutcome(resp, rows, r) == [responses |-> resp, created |-> rows, result |-> r]

CredentialRow(in) ==
  IF in.teamId = "5"
    THEN [type |-> metadataType,
          apiKey |-> symmetricEncrypt(in.apiKey.v, EnvSecret),
          userId |-> "null", teamId |-> in.teamId, appId |-> metadataSlug]
    ELSE [type |-> metadataType,
          apiKey |-> symmetricEncrypt(in.apiKey.v, EnvSecret),
          userId |-> "user1", teamId |-> "absent", appId |-> metadataSlug]

\* res.status(s).json(b): once a response has gone out a second json() raises
\* ERR_HTTP_HEADERS_SENT.
sendJson(sent, status, body, rows) ==
  IF sent # <<>>
    THEN InstallOutcome(sent, rows, Throw("ERR_HTTP_HEADERS_SENT"))
    ELSE InstallOutcome(<<Response(status, body)>>, rows, Void)

\* The POST branch: the .catch of the probe answers 400 and the handler goes on.
handlerPost(in) ==
  LET sent == IF in.probe # "ok" THEN <<Response(400, "Invalid API key")>> ELSE <<>>
  IN  IF ~ZString(in.apiKey) \/ in.teamId = "nan"
        THEN InstallOutcome(<<>>, <<>>, Throw("ZodError"))
      ELSE IF ~in.userFound
        THEN InstallOutcome(sent, <<>>, Throw("NotFoundError"))
      ELSE IF ~in.createOk
        THEN sendJson(sent, 500, "Could not add this SquadCast account", <<>>)
        ELSE sendJson(sent, 200, "/apps/installed/conferencing?hl=squadcast",
                      <<CredentialRow(in)>>)

handler(in) ==
  IF ~in.session
    THEN InstallOutcome(<<>>, <<>>, Throw("HttpError401"))
  ELSE IF in.method = "GET"
    THEN sendJson(<<>>, 200,
                  IF in.teamId = "absent"
                    THEN "/apps/squadcast/setup"
                    ELSE "/apps/squadcast/setup?teamId=" \o in.teamId,
                  <<>>)
  ELSE IF in.method = "POST"
    THEN handlerPost(in)
    ELSE InstallOutcome(<<>>, <<>>, Void)

----------------------------------------------------------------------------
(* State machine *)

NoPart == [threw |-> FALSE, stage |-> <<>>, viewer |-> <<>>]
NoInput == [none |-> TRUE]

Idle ==
  /\ part = NoPart
  /\ op = "none"
  /\ input = NoInput
  /\ steps = <<>>
  /\ calls = <<>>
  /\ result = NoResult
  /\ responses = <<>>

\* The adapter is constructed with a credential; the booking engine hands it
\* an event.
Init ==
  /\ credential \in Credentials
  /\ event \in LifecycleEvents
  /\ store = <<>>
  /\ Idle

CreateMeeting ==
  \E in \in CreateInputs :
    LET out == createMeeting(credential, event, in)
    IN  /\ op = "none"
        /\ op' = "createMeeting"
        /\ input' = in
        /\ steps' = out.steps
        /\ calls' = out.calls
        /\ result' = out.result
        /\ UNCHANGED <<credential, event, part, store, responses>>

UpdateMeeting ==
  \E in \in UpdateInputs :
    LET out == updateMeeting(credential, event, in)
    IN  /\ op = "none"
        /\ op' = "updateMeeting"
        /\ input' = in
        /\ steps' = out.steps
        /\ calls' = out.calls
        /\ result' = out.result
        /\ UNCHANGED <<credential, event, part, store, responses>>

DeleteMeeting ==
  \E in \in DeleteInputs :
    LET out == deleteMeeting(credential, in)
    IN  /\ op = "none"
        /\ op' = "deleteMeeting"
        /\ input' = in
        /\ steps' = out.steps
        /\ calls' = out.calls
        /\ result' = out.result
        /\ UNCHANGED <<credential, event, part, store, responses>>

GetAvailability ==
  /\ op = "none"
  /\ op' = "getAvailability"
  /\ result' = [kind |-> "returnList", list |-> <<>>]
  /\ UNCHANGED <<credential, event, part, input, steps, calls, store, responses>>

\* The caller has taken the result; the adapter keeps nothing between calls.
Done ==
  /\ op # "none"
  /\ op' = "none"
  /\ part' = NoPart
  /\ input' = NoInput
  /\ steps' = <<>>
  /\ calls' = <<>>
  /\ result' = NoResult
  /\ responses' = <<>>
  /\ UNCHANGED <<credential, event, store>>

Next == CreateMeeting \/ UpdateMeeting \/ DeleteMeeting \/ GetAvailability \/ Done

Spec == Init /\ [][Next]_vars

----------------------------------------------------------------------------
(* The install handler on its own *)

InitInstall ==
  /\ credential = [hasKey |-> FALSE, apiKey |-> Undefined]
  /\ event = ExampleEvent
  /\ store = <<>>
  /\ Idle

Install ==
  \E in \in InstallInputs :
    LET out == handler(in)
    IN  /\ op = "none"
        /\ Len(store) < MaxStore
        /\ op' = "install"
        /\ input' = in
        /\ responses' = out.responses
        /\ result' = out.result
        /\ store' = store \o out.created
        /\ UNCHANGED <<credential, event, part, steps, calls>>

NextInstall == Install \/ Done

SpecInstall == InitInstall /\ [][NextInstall]_vars

----------------------------------------------------------------------------
(* createStageAndViewers on its own, over many events *)

InitPartition ==
  /\ credential = [hasKey |-> FALSE, apiKey |-> Undefined]
  /\ event \in PartitionEvents
  /\ store = <<>>
  /\ Idle

Partition ==
  /\ op = "none"
  /\ op' = "createStageAndViewers"
  /\ part' = createStageAndViewers(event)
  /\ UNCHANGED <<credential, event, input, steps, calls, result, store, responses>>

NextPartition == Partition \/ Done

SpecPartition == InitPartition /\ [][NextPartition]_vars

----------------------------------------------------------------------------
(* Properties of the stage/viewer partition (SpecPartition) *)

\* organizer, then the attendees that are not guests, then the team members
ParticipantSequence(ev) ==
  LET nonGuests == SelectSeq(ev.attendees,
                     LAMBDA a : \A i \in 1..Len(ev.guests) : ev.guests[i] # a)
  IN  <<ev.organizer>> \o nonGuests \o (IF ev.hasTeam THEN ev.team ELSE <<>>)

Range(s) == {s[i] : i \in 1..Len(s)}

NoRepeats(s) == \A i, j \in 1..Len(s) : s[i] = s[j] => i = j

Partitioned == op = "createStageAndViewers" /\ ~part.threw

GuestsAreAttendees(ev) == Range(ev.guests) \subseteq Range(ev.attendees)

\* What every partition of more than StageLimit participants satisfies.
OverLimitShape ==
  LET everyone == ParticipantSequence(event)
  IN  /\ Len(part.stage) = 10
      /\ part.stage[1] = event.organizer
      /\ part.viewer = SubSeq(everyone, 11, Len(everyone)) \o event.guests
      /\ part.stage \o part.viewer = everyone \o event.guests
      /\ (Range(event.attendees) \cup Range(event.team) \cup {event.organizer})
           \subseteq (Range(part.stage) \cup Range(part.viewer))

C5_Original ==
  (Partitioned /\ GuestsAreAttendees(event))
    => \A g \in Range(event.guests) :
         g \notin Range(part.stage) /\ g \in Range(part.viewer)

\* C5 amended: every guest is in viewer, and a guest e-mail is in stage only
\* when it is also the organizer's e-mail or a team member's e-mail.
C5_GuestsAreViewers ==
  Partitioned
    => \A g \in Range(event.guests) :
         /\ g \in Range(part.viewer)
         /\ g \in Range(part.stage)
              => (g = event.organizer \/ (event.hasTeam /\ g \in Range(event.team)))

C5_Witness ==
  /\ Partitioned
  /\ Len(event.guests) > 0
  /\ Range(event.guests) \subseteq Range(event.attendees)
  /\ Len(part.stage) = 10

\* C6 as stated: the example event (organizer also listed as attendee) gives
\* stage = [o, a, b] and viewer = [g].
C6_Original ==
  (Partitioned /\ event = ExampleEvent)
    => /\ part.stage = <<"o@x.com", "a@x.com", "b@x.com">>
       /\ part.viewer = <<"g@x.com">>

\* C6 amended: the example event gives stage = [o, o, a, b] (the organizer is
\* listed twice, once as organizer and once as attendee) and viewer = [g].
C6_Example ==
  (Partitioned /\ event = ExampleEvent)
    => /\ part.stage = <<"o@x.com", "o@x.com", "a@x.com", "b@x.com">>
       /\ part.viewer = <<"g@x.com">>

C6_Witness == Partitioned /\ event = ExampleEvent /\ Len(part.stage) = 4

----------------------------------------------------------------------------
(* Properties of the adapter operations (Spec) *)

Issued(method) == \E i \in 1..Len(calls) : calls[i].method = method

Is2xx(status) == status \in 200..299

\* The credential holds a well-formed encrypted key.
KeyStored == credential.hasKey /\ ZString(credential.apiKey)

\* The recordings request was answered with a list whose elements have one of
\* the two documented shapes, {status} or {recordingID}.
RecordingsFetched ==
  /\ op = "deleteMeeting"
  /\ KeyStored
  /\ Issued("GET")
  /\ input.net = "respond" /\ input.json /\ input.isArray
  /\ \A i \in 1..Len(input.recordings) :
       ZString(input.recordings[i].status) # ZString(input.recordings[i].recordingID)

FirstCarriesRecordingID ==
  Len(input.recordings) > 0 /\ input.recordings[1].recordingID.t # "undefined"

\* C1: deleteMeeting issues the DELETE call iff the first element of the
\* fetched recordings list does not carry recordingID; in particular it issues
\* it when the list is empty.
C1_DeleteIffNoRecording ==
  RecordingsFetched => (Issued("DELETE") <=> ~FirstCarriesRecordingID)

\* C3: every provider call of createMeeting, updateMeeting and deleteMeeting
\* carries the decrypted API key, and a credential without a stored key makes
\* none of them issue any request.
C3_CallsCarryKey ==
  op \in {"createMeeting", "updateMeeting", "deleteMeeting"}
    => /\ \A i \in 1..Len(calls) : calls[i].token \in ApiKeys
       /\ ~credential.hasKey => calls = <<>>

CreateAnswered ==
  op = "createMeeting" /\ Issued("POST") /\ input.net = "respond"

CreatedDescriptor ==
  [id |-> Str("sess1"),
   url |-> Str("https://app.squadcast.fm/studio/show1/session/sess1"),
   password |-> Str(""),
   type |-> Str("squadcast_video")]

\* C8 as stated: createMeeting returns the empty descriptor exactly when the
\* response status is not 2xx; a 2xx response with sessionID and showID gives
\* the descriptor built from them; a 2xx response missing a field fails.
C8_Original ==
  (CreateAnswered /\ KeyStored)
    => /\ (result = Return(empty)) <=> ~Is2xx(input.status)
       /\ (Is2xx(input.status) /\ input.json
             /\ input.sessionID = Str("sess1") /\ input.showID = Str("show1"))
            => result = Return(CreatedDescriptor)
       /\ (Is2xx(input.status) /\ input.json
             /\ (input.sessionID.t = "undefined" \/ input.showID.t = "undefined"))
            => result.kind = "throw"

\* C8 amended: createMeeting returns the empty descriptor exactly when the
\* response status is not 200 (other 2xx statuses included); a 200 response
\* with string sessionID and showID gives the descriptor built from them; a
\* 200 response missing a field fails.
C8_CreateResult ==
  CreateAnswered
    => /\ (result = Return(empty)) <=> input.status # 200
       /\ (input.status = 200 /\ input.json
             /\ input.sessionID = Str("sess1") /\ input.showID = Str("show1"))
            => result = Return(CreatedDescriptor)
       /\ (input.status = 200 /\ input.json
             /\ (input.sessionID.t = "undefined" \/ input.showID.t = "undefined"))
            => result.kind = "throw"

C8_Witness ==
  /\ CreateAnswered
  /\ input.status = 200
  /\ result = Return(CreatedDescriptor)

\* C9: when the provider is unavailable during createMeeting or updateMeeting
\* (the request fails on the network or is answered with a failure status) the
\* operation does not throw; createMeeting returns the empty descriptor.
C9_UnavailableAbsorbed ==
  (/\ op \in {"createMeeting", "updateMeeting"}
   /\ KeyStored
   /\ calls # <<>>
   /\ (input.net = "reject" \/ ~Is2xx(input.status)))
    => /\ result.kind = "return"
       /\ op = "createMeeting" => result.value = empty

\* C10: updateMeeting with a booking reference without meeting identifier
\* returns the empty descriptor, issues no request, resolves no key and builds
\* no payload.
C10_UpdateWithoutId ==
  (op = "updateMeeting" /\ Falsy(input.bookingRef.meetingId))
    => /\ result = Return(empty)
       /\ calls = <<>>
       /\ steps = <<>>

C10_Witness ==
  /\ op = "updateMeeting"
  /\ input.bookingRef.meetingId = Undefined
  /\ credential.hasKey /\ ~ZString(credential.apiKey)
  /\ result = Return(empty)

----------------------------------------------------------------------------
(* Property of the install handler (SpecInstall) *)

\* C2: when the organizations probe fails or answers non-2xx, the POST handler
\* ends with a single error response and creates no credential row.
C2_InvalidKeyNotStored ==
  [][(/\ op' = "install"
      /\ input'.session /\ input'.method = "POST"
      /\ ZString(input'.apiKey) /\ input'.teamId # "nan"
      /\ input'.probe # "ok")
       => /\ store' = store
          /\ Len(responses') = 1
          /\ responses'[1].status = 400]_vars

====
